---- MODULE Spec2Model ----
(***************************************************************************)
(* A model of the WKT tokenizer (src/src/tokenizer.rs) and of the top-level *)
(* dispatcher (src/src/lib.rs, src/src/types/multilinestring.rs).           *)
(*                                                                         *)
(* A character is a one-character string; the NUL character is written    *)
(* "NUL".  A text is a sequence of characters.                             *)
(***************************************************************************)
EXTENDS Integers, Sequences, FiniteSets, TLC

VARIABLES
    given,      \* how the input text was put together (keyword, literals, trailing text)
    text,       \* the input text
    chars,      \* Tokens.chars: the characters the tokenizer has not consumed
    results,    \* what each call of Tokens::next returned, and where it stopped
    doc         \* what Wkt::from_str(text) returned, Pending before the call

vars == <<given, text, chars, results, doc>>

(***************************************************************************)
(* Bounds of the model.                                                    *)
(***************************************************************************)
MaxLen == 4
MaxRep == 8
MaxNumLen == 2
MaxCoords == 3
MaxBody == 5
MaxTrail == 2
MaxLines == 2

(***************************************************************************)
(* Characters.                                                             *)
(***************************************************************************)
NUL == "NUL"

Digits == <<"0", "1", "2", "3", "4", "5", "6", "7", "8", "9">>

DigitSet == {Digits[i] : i \in 1..10}

DigitVal(c) == (CHOOSE i \in 1..10 : Digits[i] = c) - 1

LowerCase == <<"a", "b", "c", "d", "e", "f", "g", "h", "i", "j", "k", "l", "m",
               "n", "o", "p", "q", "r", "s", "t", "u", "v", "w", "x", "y", "z">>

UpperCase == <<"A", "B", "C", "D", "E", "F", "G", "H", "I", "J", "K", "L", "M",
               "N", "O", "P", "Q", "R", "S", "T", "U", "V", "W", "X", "Y", "Z">>

\* A letter outside ASCII, and a numeric character outside ASCII
\* (char::is_numeric is true of it, no float literal contains it).
NonAsciiLetter == "e_acute"
NonAsciiNumeric == "one_half"

is_ascii_char(c) == c \notin {NonAsciiLetter, NonAsciiNumeric}

to_ascii_uppercase_char(c) ==
    IF \E i \in 1..26 : LowerCase[i] = c
    THEN UpperCase[CHOOSE i \in 1..26 : LowerCase[i] = c]
    ELSE c

to_ascii_lowercase_char(c) ==
    IF \E i \in 1..26 : UpperCase[i] = c
    THEN LowerCase[CHOOSE i \in 1..26 : UpperCase[i] = c]
    ELSE c

is_ascii(word) == \A i \in 1..Len(word) : is_ascii_char(word[i])

to_ascii_uppercase(word) == [i \in 1..Len(word) |-> to_ascii_uppercase_char(word[i])]

to_ascii_lowercase(word) == [i \in 1..Len(word) |-> to_ascii_lowercase_char(word[i])]

is_whitespace(c) == c \in {"\n", "\r", "\t", " "}

is_numeric(c) == c \in DigitSet \cup {NonAsciiNumeric}

\* is_numberlike with the '+' forgotten
is_numberlike_no_plus(c) == is_numeric(c) \/ c \in {".", "-"}

is_numberlike(c) == is_numeric(c) \/ c \in {".", "-", "+"}

is_marker(c) == c \in {NUL, "(", ")", ","}

(***************************************************************************)
(* Tokens.  Option<Token> is a record; None is the record of kind "None".  *)
(***************************************************************************)
None == [kind |-> "None"]
Comma == [kind |-> "Comma"]
ParenClose == [kind |-> "ParenClose"]
ParenOpen == [kind |-> "ParenOpen"]
Number(v) == [kind |-> "Number", val |-> v]
Word(w) == [kind |-> "Word", word |-> w]

(***************************************************************************)
(* str::parse::<f64>.  A finite value is m * 10^e with m not divisible by  *)
(* ten (zero is m = 0, e = 0), so that two literals have the same record   *)
(* exactly when they denote the same decimal value; -0 and 0 are equal, as *)
(* f64's == has them.                                                      *)
(***************************************************************************)
RECURSIVE Normalize(_, _)
Normalize(m, e) ==
    IF m = 0 THEN [cls |-> "finite", m |-> 0, e |-> 0]
    ELSE IF m % 10 = 0 THEN Normalize(m \div 10, e + 1)
    ELSE [cls |-> "finite", m |-> m, e |-> e]

ParseErr == [cls |-> "err", m |-> 0, e |-> 0]

Special(c) == [cls |-> c, m |-> 0, e |-> 0]

\* the length of the longest prefix of s made of decimal digits
RECURSIVE DigitRun(_)
DigitRun(s) ==
    IF s # <<>> /\ Head(s) \in DigitSet THEN 1 + DigitRun(Tail(s)) ELSE 0

RECURSIVE DigitsValue(_, _)
DigitsValue(s, acc) ==
    IF s = <<>> THEN acc ELSE DigitsValue(Tail(s), acc * 10 + DigitVal(Head(s)))

Drop(s, n) == SubSeq(s, n + 1, Len(s))

Take(s, n) == SubSeq(s, 1, n)

\* the exponent part: <<>> is exponent 0; otherwise [eE] [+-]? digit+
ParseExp(s) ==
    IF s = <<>> THEN [ok |-> TRUE, exp |-> 0]
    ELSE IF Head(s) \notin {"e", "E"} THEN [ok |-> FALSE, exp |-> 0]
    ELSE LET r == Tail(s)
             neg == r # <<>> /\ Head(r) = "-"
             d == IF r # <<>> /\ Head(r) \in {"+", "-"} THEN Tail(r) ELSE r
         IN  IF d = <<>> \/ DigitRun(d) # Len(d) THEN [ok |-> FALSE, exp |-> 0]
             ELSE [ok |-> TRUE,
                   exp |-> IF neg THEN 0 - DigitsValue(d, 0) ELSE DigitsValue(d, 0)]

\* an unsigned literal: digit* ('.' digit*)? exponent?, with at least one digit
ParseUnsigned(s, neg) ==
    LET ni == DigitRun(s)
        afterInt == Drop(s, ni)
        hasDot == afterInt # <<>> /\ Head(afterInt) = "."
        fracAll == IF hasDot THEN Tail(afterInt) ELSE afterInt
        nf == IF hasDot THEN DigitRun(fracAll) ELSE 0
        rest == Drop(fracAll, nf)
        ex == ParseExp(rest)
        mant == DigitsValue(Take(s, ni) \o Take(fracAll, nf), 0)
    IN  IF ni + nf = 0 \/ ~ex.ok THEN ParseErr
        ELSE Normalize(IF neg THEN 0 - mant ELSE mant, ex.exp - nf)

ParseSpecial(s, neg) ==
    LET l == to_ascii_lowercase(s)
    IN  IF l = <<"n", "a", "n">> THEN Special("nan")
        ELSE IF l = <<"i", "n", "f">> \/ l = <<"i", "n", "f", "i", "n", "i", "t", "y">>
             THEN Special(IF neg THEN "-inf" ELSE "inf")
        ELSE ParseErr

ParseFloat(s) ==
    IF s = <<>> THEN ParseErr
    ELSE LET signed == Head(s) \in {"+", "-"}
             neg == Head(s) = "-"
             body == IF signed THEN Tail(s) ELSE s
             num == ParseUnsigned(body, neg)
         IN  IF body = <<>> THEN ParseErr
             ELSE IF num.cls # "err" THEN num
             ELSE ParseSpecial(body, neg)

\* str::trim_start_matches('+'): every leading '+' is removed
RECURSIVE trim_start_matches_plus(_)
trim_start_matches_plus(s) ==
    IF s # <<>> /\ Head(s) = "+" THEN trim_start_matches_plus(Tail(s)) ELSE s

(***************************************************************************)
(* Tokens::read_until_whitespace.  The result is the accumulated string    *)
(* (<<>> stands for None, which the caller turns into the empty string)    *)
(* and the characters that remain.                                         *)
(***************************************************************************)
RECURSIVE read_until_whitespace(_)
read_until_whitespace(cs) ==
    IF cs = <<>> THEN [result |-> <<>>, chars |-> <<>>]
    ELSE LET next_char == Head(cs)
         IN  IF is_marker(next_char) THEN [result |-> <<>>, chars |-> cs]
             ELSE IF is_whitespace(next_char) THEN [result |-> <<>>, chars |-> Tail(cs)]
             ELSE LET r == read_until_whitespace(Tail(cs))
                  IN  [result |-> <<next_char>> \o r.result, chars |-> r.chars]

\* the whitespace skipped at the start of Tokens::next
RECURSIVE SkipWhitespace(_)
SkipWhitespace(cs) ==
    IF cs # <<>> /\ is_whitespace(Head(cs)) THEN SkipWhitespace(Tail(cs)) ELSE cs

(***************************************************************************)
(* Tokens::next: the item returned and the characters that remain.         *)
(***************************************************************************)
\* Ok(parsed_num) => Some(Token::Number(parsed_num)), Err(_) => None
number_item(parsed, rest) ==
    [item |-> IF parsed.cls # "err" THEN Number(parsed) ELSE None, chars |-> rest]

\* the arm `c if is_numberlike(c)`; r is what read_until_whitespace returned
number_token(c, r) ==
    number_item(ParseFloat(trim_start_matches_plus(<<c>> \o r.result)), r.chars)

\* the arm `c`; r is what read_until_whitespace returned
word_token(c, r) == [item |-> Word(<<c>> \o r.result), chars |-> r.chars]

\* the match on next_char, the first character that is not whitespace
match_next_char(s) ==
    IF s = <<>> THEN [item |-> None, chars |-> <<>>]
    ELSE CASE Head(s) = NUL -> [item |-> None, chars |-> Tail(s)]
           [] Head(s) = "(" -> [item |-> ParenOpen, chars |-> Tail(s)]
           [] Head(s) = ")" -> [item |-> ParenClose, chars |-> Tail(s)]
           [] Head(s) = "," -> [item |-> Comma, chars |-> Tail(s)]
           [] OTHER ->
                IF is_numberlike(Head(s))
                THEN number_token(Head(s), read_until_whitespace(Tail(s)))
                ELSE word_token(Head(s), read_until_whitespace(Tail(s)))

Tokens_next(cs) == match_next_char(SkipWhitespace(cs))

Tokens_from_str(input) == input

\* Iterator::collect over Tokens: the items up to the first None
RECURSIVE Collect(_)
Collect(cs) ==
    LET r == Tokens_next(cs)
    IN  IF r.item = None THEN <<>> ELSE <<r.item>> \o Collect(r.chars)

(***************************************************************************)
(* PeekableTokens = Peekable<Tokens>: the tokenizer with a one-item        *)
(* lookahead slot.  A peeked None is kept in the slot like any other item. *)
(***************************************************************************)
peekable(cs) == [chars |-> cs, has |-> FALSE, item |-> None]

\* the cursor after the underlying iterator returned r, the slot empty
taken(r) == [item |-> r.item, cur |-> [chars |-> r.chars, has |-> FALSE, item |-> None]]

\* the cursor after the underlying iterator returned r, r.item in the slot
kept(r) == [item |-> r.item, cur |-> [chars |-> r.chars, has |-> TRUE, item |-> r.item]]

\* Peekable::next
PNext(cur) ==
    IF cur.has THEN [item |-> cur.item, cur |-> [chars |-> cur.chars, has |-> FALSE, item |-> None]]
    ELSE taken(Tokens_next(cur.chars))

\* Peekable::peek
PPeek(cur) ==
    IF cur.has THEN [item |-> cur.item, cur |-> cur]
    ELSE kept(Tokens_next(cur.chars))

(***************************************************************************)
(* Result<T, &'static str> of a parsing function, with the cursor as the   *)
(* function leaves it.                                                     *)
(***************************************************************************)
POk(v, cur) == [ok |-> TRUE, value |-> v, err |-> "", cur |-> cur]

PErr(e, cur) == [ok |-> FALSE, value |-> <<>>, err |-> e, cur |-> cur]

\* an absent z or m
Absent == [cls |-> "none", m |-> 0, e |-> 0]

Coord(x, y) == [x |-> x, y |-> y, z |-> Absent, m |-> Absent]

PointOf(c) == [variant |-> "Point", coord |-> c]

LineStringOf(cs) == [variant |-> "LineString", coords |-> cs]

MultiLineStringOf(ls) == [variant |-> "MultiLineString", lines |-> ls]

(***************************************************************************)
(* The FromTokens capability (types/mod.rs), the coordinate, the Point and *)
(* the LineString (types/coord.rs, point.rs, linestring.rs).               *)
(***************************************************************************)
\* the coordinate once both numbers have been read
Coord_y(a, b) ==
    IF b.item.kind # "Number" THEN PErr("Expected a number for the Y coordinate", b.cur)
    ELSE POk(Coord(a.item.val, b.item.val), b.cur)

Coord_x(a) ==
    IF a.item.kind # "Number" THEN PErr("Expected a number for the X coordinate", a.cur)
    ELSE Coord_y(a, PNext(a.cur))

\* exactly two numbers
Coord_from_tokens(cur) == Coord_x(PNext(cur))

\* result.map(|coord| Point {coord: coord})
Point_map(r) == IF r.ok THEN POk(PointOf(r.value), r.cur) ELSE r

Point_from_tokens(cur) == Point_map(Coord_from_tokens(cur))

RECURSIVE from_tokens_with_parens(_, _)
RECURSIVE comma_many_loop(_, _, _)

\* the element parser handed to comma_many
parse_one(elem, cur) ==
    IF elem = "Coord" THEN Coord_from_tokens(cur) ELSE from_tokens_with_parens(elem, cur)

\* an element has been parsed with result r: it is pushed and the list goes on
comma_many_pushed(elem, items, r) ==
    IF r.ok THEN comma_many_loop(elem, Append(items, r.value), r.cur) ELSE r

\* a peeked Comma is consumed and continues the list; anything else ends it
comma_many_peeked(elem, items, p) ==
    IF p.item # Comma THEN POk(items, p.cur)
    ELSE comma_many_pushed(elem, items, parse_one(elem, PNext(p.cur).cur))

comma_many_loop(elem, items, cur) == comma_many_peeked(elem, items, PPeek(cur))

\* a list that fails on its first element fails: there is no empty list
comma_many(elem, cur) == comma_many_pushed(elem, <<>>, parse_one(elem, cur))

\* result.map(|vec| LineString {coords: vec})
LineString_map(r) == IF r.ok THEN POk(LineStringOf(r.value), r.cur) ELSE r

LineString_from_tokens(cur) == LineString_map(comma_many("Coord", cur))

\* result.map(|vec| MultiLineString {lines: vec})
MultiLineString_map(result) ==
    IF result.ok THEN POk(MultiLineStringOf(result.value), result.cur) ELSE result

\* MultiLineString::from_tokens
MultiLineString_from_tokens(tokens) == MultiLineString_map(comma_many("LineString", tokens))

from_tokens(type, cur) ==
    CASE type = "Point" -> Point_from_tokens(cur)
      [] type = "LineString" -> LineString_from_tokens(cur)
      [] type = "MultiLineString" -> MultiLineString_from_tokens(cur)

\* the body has been parsed with result r and close is the token after it
with_parens_close(r, close) ==
    IF close.item # ParenClose THEN PErr("Missing closing parenthesis for type", close.cur)
    ELSE POk(r.value, close.cur)

with_parens_body(r) == IF r.ok THEN with_parens_close(r, PNext(r.cur)) ELSE r

with_parens_open(type, open) ==
    IF open.item # ParenOpen THEN PErr("Missing open parenthesis for type", open.cur)
    ELSE with_parens_body(from_tokens(type, open.cur))

from_tokens_with_parens(type, cur) == with_parens_open(type, PNext(cur))

(***************************************************************************)
(* The dispatcher (lib.rs).                                                *)
(***************************************************************************)
POINT == <<"P", "O", "I", "N", "T">>

LINESTRING == <<"L", "I", "N", "E", "S", "T", "R", "I", "N", "G">>

MULTILINESTRING == <<"M", "U", "L", "T", "I">> \o LINESTRING

\* from_word_and_tokens with the LINESTRING arm parsing a Point
from_word_and_tokens_point_arm(word, tokens) ==
    CASE word = POINT -> from_tokens_with_parens("Point", tokens)
      [] word = LINESTRING -> from_tokens_with_parens("Point", tokens)
      [] OTHER -> PErr("Invalid type encountered", tokens)

\* WktItem::from_word_and_tokens
from_word_and_tokens(word, tokens) ==
    CASE word = POINT -> from_tokens_with_parens("Point", tokens)
      [] word = LINESTRING -> from_tokens_with_parens("LineString", tokens)
      [] OTHER -> PErr("Invalid type encountered", tokens)

\* Result<Wkt, &'static str>
WktOk(items) == [status |-> "Ok", items |-> items, err |-> ""]

WktErr(e) == [status |-> "Err", items |-> <<>>, err |-> e]

\* no call of Wkt::from_str has returned yet
Pending == [status |-> "Pending", items |-> <<>>, err |-> ""]

\* the match on the result of from_word_and_tokens, with tokens after the
\* geometry rejected
add_item_to_the_end(r) ==
    IF ~r.ok THEN WktErr(r.err)
    ELSE IF PNext(r.cur).item # None THEN WktErr("Unexpected trailing token")
    ELSE WktOk(<<r.value>>)

\* the match on the result of from_word_and_tokens, with the empty Wkt returned
\* when the geometry failed to parse
add_item_error_dropped(r) == IF r.ok THEN WktOk(<<r.value>>) ELSE WktOk(<<>>)

\* the match on the result of from_word_and_tokens (lib.rs:79-83)
add_item(r) == IF r.ok THEN WktOk(<<r.value>>) ELSE WktErr(r.err)

\* the match on the first token, with the word matched as it is spelled
match_first_case_sensitive(first) ==
    IF first.item.kind = "Word"
    THEN IF ~is_ascii(first.item.word) THEN WktErr("Encountered non-ascii word")
         ELSE add_item(from_word_and_tokens(first.item.word, first.cur))
    ELSE IF first.item = None THEN WktOk(<<>>)
    ELSE WktErr("Invalid WKT format")

\* the match on the first token (lib.rs:69-78) and what follows it
match_first(first) ==
    IF first.item.kind = "Word"
    THEN IF ~is_ascii(first.item.word) THEN WktErr("Encountered non-ascii word")
         ELSE add_item(from_word_and_tokens(to_ascii_uppercase(first.item.word), first.cur))
    ELSE IF first.item = None THEN WktOk(<<>>)
    ELSE WktErr("Invalid WKT format")

\* Wkt::from_tokens
Wkt_from_tokens(tokens) == match_first(PNext(peekable(tokens)))

\* Wkt::from_str
Wkt_from_str(wkt_str) == Wkt_from_tokens(Tokens_from_str(wkt_str))

(***************************************************************************)
(* Input texts.                                                            *)
(***************************************************************************)
Strings(alphabet, n) == UNION {[1..k -> alphabet] : k \in 0..n}

RECURSIVE Join(_, _)
Join(parts, sep) ==
    IF parts = <<>> THEN <<>>
    ELSE IF Len(parts) = 1 THEN parts[1]
    ELSE parts[1] \o sep \o Join(Tail(parts), sep)

\* every upper/lower-case spelling of an upper-case word
CaseSpellings(w) ==
    {[i \in 1..Len(w) |-> IF up[i] THEN w[i] ELSE to_ascii_lowercase_char(w[i])] :
        up \in [1..Len(w) -> BOOLEAN]}

\* the upper-case, the lower-case and the capitalised spelling
SomeSpellings(w) ==
    {w, to_ascii_lowercase(w), <<w[1]>> \o to_ascii_lowercase(Tail(w))}

NumAlphabet == {"+", "-", ".", "0", "1", "e"}

\* the literals of at most MaxNumLen characters that are valid numbers
NumLits == {s \in Strings(NumAlphabet, MaxNumLen) : ParseFloat(s).cls = "finite"}

LineNums == {<<"1">>, <<"-", "2">>, <<".", "5">>}

Seqs(S, lo, hi) == UNION {[1..k -> S] : k \in lo..hi}

CoordText(p) == p[1] \o <<" ">> \o p[2]

LineBody(coords, sep) ==
    <<"(">> \o Join([i \in 1..Len(coords) |-> CoordText(coords[i])], sep) \o <<")">>

\* given.parts of a geometry: its lines, each a sequence of coordinates <<a, b>>
\* of literals (a Point is one line of one coordinate)
NoGiven == [shape |-> "Raw", kw |-> <<>>, parts |-> <<>>, sep |-> <<>>, trail |-> <<>>]

PointGivens ==
    {[shape |-> "Point", kw |-> k, parts |-> <<<<<<a, b>>>>>>, sep |-> <<>>, trail |-> <<>>] :
        k \in CaseSpellings(POINT), a \in NumLits, b \in NumLits}

LineGivens ==
    {[shape |-> "LineString", kw |-> k, parts |-> <<cs>>, sep |-> sp, trail |-> <<>>] :
        k \in SomeSpellings(LINESTRING),
        cs \in Seqs(LineNums \X LineNums, 0, MaxCoords),
        sp \in {<<",">>, <<",", " ">>}}

MultiGivens ==
    {[shape |-> "MultiLineString", kw |-> k, parts |-> ls, sep |-> <<",">>, trail |-> <<>>] :
        k \in {MULTILINESTRING, to_ascii_lowercase(MULTILINESTRING)},
        ls \in Seqs(Seqs({<<"1">>, <<"-", "2">>} \X {<<"1">>, <<"-", "2">>}, 1, 2), 1, MaxLines)}

\* the text of one geometry
BaseText(g) ==
    CASE g.shape = "Point" ->
            g.kw \o <<" ", "(">> \o CoordText(g.parts[1][1]) \o <<")">>
      [] g.shape = "LineString" ->
            g.kw \o <<" ">> \o LineBody(g.parts[1], g.sep)
      [] g.shape = "MultiLineString" ->
            g.kw \o <<" ", "(">>
                 \o Join([i \in 1..Len(g.parts) |-> LineBody(g.parts[i], g.sep)], g.sep)
                 \o <<")">>
      [] g.shape = "Body" -> g.kw \o <<" ">> \o Join(g.parts, <<>>)
      [] OTHER -> g.parts

\* the geometry followed by whitespace and the trailing text
FullText(g) == BaseText(g) \o <<" ">> \o g.trail

(***************************************************************************)
(* The state machine: a text is given, Tokens::from_str(text) is pulled    *)
(* token by token, and Wkt::from_str(text) is called.                      *)
(***************************************************************************)
InitWith(g, t) ==
    /\ given = g
    /\ text = t
    /\ chars = Tokens_from_str(t)
    /\ results = <<>>
    /\ doc = Pending

\* one call of Tokens::next; it may be called again after it returned None
Returned(r) ==
    /\ chars' = r.chars
    /\ results' = Append(results, [item |-> r.item, at |-> Len(text) - Len(r.chars)])

Pull ==
    /\ Len(results) < Len(text) + 2
    /\ Returned(Tokens_next(chars))
    /\ UNCHANGED <<given, text, doc>>

\* the call of Wkt::from_str
FromStr ==
    /\ doc = Pending
    /\ doc' = Wkt_from_str(text)
    /\ UNCHANGED <<given, text, chars, results>>

Next == Pull \/ FromStr

\* any text over a small alphabet
TokAlphabet == {"(", ")", ",", " ", NUL, "+", "-", ".", "1", "x"}

Init == \E t \in Strings(TokAlphabet, MaxLen) :
            InitWith([NoGiven EXCEPT !.parts = t], t)

Spec == Init /\ [][Next]_vars

\* one character repeated
RepChars == {"(", ")", ",", "+", " ", "\t", "\n", "\r", "A", "z", "0", "7"}

InitRep == \E c \in RepChars, n \in 1..MaxRep :
               InitWith([NoGiven EXCEPT !.shape = "Rep", !.parts = <<c>>], [i \in 1..n |-> c])

SpecRep == InitRep /\ [][Pull]_vars

\* one well-formed geometry text
InitGeom == \E g \in PointGivens \cup LineGivens \cup MultiGivens :
                InitWith(g, BaseText(g))

SpecGeom == InitGeom /\ [][FromStr]_vars

\* the keyword POINT followed by a body of at most MaxBody pieces
NumPieces == {<<"1", " ">>, <<"-", "2", " ">>}

BodyPieces == {<<"(">>, <<")">>, <<",">>, <<"x", " ">>, <<"1", "x", " ">>} \cup NumPieces

InitBody == \E k \in {POINT, to_ascii_lowercase(POINT)}, b \in Seqs(BodyPieces, 0, MaxBody) :
                LET g == [shape |-> "Body", kw |-> k, parts |-> b, sep |-> <<>>, trail |-> <<>>]
                IN  InitWith(g, BaseText(g))

SpecBody == InitBody /\ [][FromStr]_vars

\* a geometry text, a whitespace character and a trailing text
TrailAlphabet == {"(", ")", ",", " ", NUL, "+", "1", "x"}

SecondGeometry == POINT \o <<" ", "(", "0", " ", "1", ")">>

TrailTexts == Strings(TrailAlphabet, MaxTrail) \cup {SecondGeometry}

TrailBases ==
    {[shape |-> "Point", kw |-> POINT, parts |-> <<<<<<a, b>>>>>>, sep |-> <<>>, trail |-> <<>>] :
        a \in LineNums, b \in LineNums}
    \cup
    {[shape |-> "LineString", kw |-> LINESTRING, parts |-> <<cs>>, sep |-> <<",">>, trail |-> <<>>] :
        cs \in Seqs(LineNums \X LineNums, 0, 2)}

InitTrail == \E b \in TrailBases, t \in TrailTexts :
                 LET g == [b EXCEPT !.trail = t]
                 IN  InitWith(g, FullText(g))

SpecTrail == InitTrail /\ [][FromStr]_vars

(***************************************************************************)
(* What the properties speak of.                                           *)
(***************************************************************************)
Called == doc # Pending

\* Tokens::next has returned None at least once
Ended == \E i \in 1..Len(results) : results[i].item = None

\* the tokens a consumer that stops at the first None has seen (Iterator::collect)
Collected ==
    LET stop == IF Ended THEN CHOOSE i \in 1..Len(results) :
                                  /\ results[i].item = None
                                  /\ \A j \in 1..(i - 1) : results[j].item # None
                ELSE Len(results) + 1
    IN  [i \in 1..(stop - 1) |-> results[i].item]

\* the tokens of a text when a malformed numeric run is left out and nothing
\* else is: every token up to the end of the text or its first NUL
RECURSIVE TokensDroppingRuns(_)
TokensDroppingRuns(cs) ==
    LET s == SkipWhitespace(cs)
        r == Tokens_next(s)
    IN  IF s = <<>> \/ Head(s) = NUL THEN <<>>
        ELSE IF r.item = None THEN TokensDroppingRuns(r.chars)
        ELSE <<r.item>> \o TokensDroppingRuns(r.chars)

\* the value of a literal, and the coordinate of two literals
ValueOf(lit) == ParseFloat(lit)

CoordOf(p) == Coord(ValueOf(p[1]), ValueOf(p[2]))

LineOf(coords) == LineStringOf([i \in 1..Len(coords) |-> CoordOf(coords[i])])

(***************************************************************************)
(* C1: MULTILINESTRING followed by a parenthesized, comma-separated list   *)
(* of parenthesized LineStrings parses to a Document with exactly one      *)
(* MultiLineString whose lines are those LineStrings in input order.       *)
(***************************************************************************)
C1_MultiLineStringAccepted ==
    (given.shape = "MultiLineString" /\ Called) =>
        doc = WktOk(<<MultiLineStringOf([i \in 1..Len(given.parts) |-> LineOf(given.parts[i])])>>)

(***************************************************************************)
(* C2: for every spelling of POINT in upper and lower case and all valid   *)
(* numbers a and b, '<keyword> (a b)' parses to a Document with exactly    *)
(* one geometry, a Point, with x = a, y = b and z and m absent.            *)
(***************************************************************************)
C2_PointParsed ==
    (given.shape = "Point" /\ Called) =>
        /\ doc.status = "Ok"
        /\ Len(doc.items) = 1
        /\ doc.items[1].variant = "Point"
        /\ doc.items[1].coord.x = ValueOf(given.parts[1][1][1])
        /\ doc.items[1].coord.y = ValueOf(given.parts[1][1][2])
        /\ doc.items[1].coord.z = Absent
        /\ doc.items[1].coord.m = Absent

C2_Witness ==
    /\ given.shape = "Point"
    /\ given.kw \notin {POINT, to_ascii_lowercase(POINT)}
    /\ doc.status = "Ok"
    /\ Len(doc.items) = 1
    /\ doc.items[1].coord.x # doc.items[1].coord.y
    /\ Head(given.parts[1][1][1]) = "+"

(***************************************************************************)
(* C4: 'LINESTRING (' followed by n >= 1 coordinates separated by commas   *)
(* and ')' parses to exactly one LineString holding those n coordinates in *)
(* input order, each with z and m absent; 'LINESTRING ()' fails.           *)
(***************************************************************************)
C4_LineStringParsed ==
    (given.shape = "LineString" /\ Called) =>
        IF given.parts[1] = <<>> THEN doc.status = "Err"
        ELSE doc = WktOk(<<LineOf(given.parts[1])>>)

C4_Witness ==
    /\ given.shape = "LineString"
    /\ doc.status = "Ok"
    /\ Len(doc.items) = 1
    /\ Len(doc.items[1].coords) >= 2
    /\ doc.items[1].coords[1] # doc.items[1].coords[2]

(***************************************************************************)
(* C3: a POINT input whose body is not exactly two numbers inside one pair *)
(* of parentheses (empty body, one number, three or more numbers, a token  *)
(* that is not a number where a number is expected, a missing opening or   *)
(* closing parenthesis) makes Wkt::from_str return an error.               *)
(***************************************************************************)
ExactlyTwoNumbers(body) ==
    /\ Len(body) >= 4
    /\ body[1] = <<"(">>
    /\ body[2] \in NumPieces
    /\ body[3] \in NumPieces
    /\ body[4] = <<")">>

C3_InvalidPointFails ==
    (given.shape = "Body" /\ Called /\ ~ExactlyTwoNumbers(given.parts)) => doc.status = "Err"

\* three numbers between the parentheses
C3_Witness ==
    /\ given.shape = "Body"
    /\ Len(given.parts) = 5
    /\ given.parts[1] = <<"(">>
    /\ \A i \in 2..4 : given.parts[i] \in NumPieces
    /\ given.parts[5] = <<")">>
    /\ doc.status = "Err"

(***************************************************************************)
(* C5: a successful Wkt::from_str returns zero or one geometry, and zero   *)
(* geometries exactly when the input contains no token at all; an input    *)
(* with at least one token yields one geometry or fails.                   *)
(***************************************************************************)
C5_EmptyOnlyWithoutTokens ==
    (Called /\ doc.status = "Ok") =>
        /\ Len(doc.items) <= 1
        /\ (doc.items = <<>> <=> TokensDroppingRuns(text) = <<>>)

(***************************************************************************)
(* C6: a numeric-looking run that is not a valid number yields no token    *)
(* and no error, and only that run is dropped: the tokens before it and    *)
(* after it are still produced, in input order.                            *)
(***************************************************************************)
C6_OnlyTheRunIsDropped ==
    Ended => Collected = TokensDroppingRuns(text)

(***************************************************************************)
(* C7: N >= 1 repetitions of '(' (of ')', of ',') yield exactly N          *)
(* ParenOpen (ParenClose, Comma) tokens; of '+' or of a whitespace         *)
(* character, no token; of a letter, exactly one Word; of a digit, exactly *)
(* one Number.  The tokenizer finishes (it reports the end within N + 1    *)
(* calls) and yields no more tokens than the text has characters.          *)
(***************************************************************************)
C7_Repetitions ==
    given.shape = "Rep" =>
        LET c == given.parts[1]
            n == Len(text)
        IN  /\ Len(Collected) <= n
            /\ Len(results) > n => Ended
            /\ Ended =>
                 CASE c = "(" -> Collected = [i \in 1..n |-> ParenOpen]
                   [] c = ")" -> Collected = [i \in 1..n |-> ParenClose]
                   [] c = "," -> Collected = [i \in 1..n |-> Comma]
                   [] c = "+" \/ is_whitespace(c) -> Collected = <<>>
                   [] c \in DigitSet -> Len(Collected) = 1 /\ Collected[1].kind = "Number"
                   [] OTHER -> Len(Collected) = 1 /\ Collected[1].kind = "Word"

C7_Witness ==
    /\ given.shape = "Rep"
    /\ given.parts[1] = "+"
    /\ Len(text) >= 3
    /\ Ended
    /\ chars = <<>>

(***************************************************************************)
(* C8: tokens that follow a completely parsed geometry are ignored: when   *)
(* Wkt::from_str succeeds on T with one geometry G, it succeeds on T       *)
(* followed by whitespace and any further tokens with the same single G.   *)
(***************************************************************************)
C8_TrailingIgnored ==
    LET base == Wkt_from_str(BaseText(given))
    IN  (given.shape \in {"Point", "LineString"} /\ Called
            /\ base.status = "Ok" /\ Len(base.items) = 1)
        => doc = base

\* the trailing text holds tokens of its own
C8_Witness ==
    /\ given.shape \in {"Point", "LineString"}
    /\ Len(Collect(given.trail)) >= 2
    /\ doc.status = "Ok"
    /\ Len(doc.items) = 1

(***************************************************************************)
(* C9: a NUL character ends the token sequence: no token for the NUL and   *)
(* none for any character after it, however many more times the tokenizer  *)
(* is pulled after it first reported the end; the tokens before the NUL    *)
(* are produced unchanged.                                                 *)
(***************************************************************************)
\* the i-th call returned None because it met a NUL
NulAt(i) ==
    /\ results[i].item = None
    /\ results[i].at >= 1
    /\ text[results[i].at] = NUL

C9_NulEndsTheSequence ==
    \A i \in 1..Len(results) :
        NulAt(i) =>
            /\ \A j \in (i + 1)..Len(results) : results[j].item = None
            /\ \A j \in 1..(i - 1) : results[j].item # None =>
                   \E k \in 1..Len(TokensDroppingRuns(text)) :
                       TokensDroppingRuns(text)[k] = results[j].item

(***************************************************************************)
(* C10: of a numeric run, exactly one leading '+' is removed, never more,  *)
(* before the rest is parsed as a number: the outcome for a run is the     *)
(* outcome of parsing it with only its first '+' removed.                  *)
(***************************************************************************)
StripOnePlus(run) == IF run # <<>> /\ Head(run) = "+" THEN Tail(run) ELSE run

\* the text is one numeric-looking run
OneNumericRun(t) ==
    /\ t # <<>>
    /\ is_numberlike(t[1])
    /\ \A i \in 1..Len(t) : ~is_marker(t[i]) /\ ~is_whitespace(t[i])

C10_OnePlusStripped ==
    (OneNumericRun(text) /\ results # <<>>) =>
        results[1].item = (LET parsed == ParseFloat(StripOnePlus(text))
                           IN  IF parsed.cls # "err" THEN Number(parsed) ELSE None)

====
